---- MODULE Spec2Model ----
(***************************************************************************)
(* WorkStealingDeque of src/work_stealing/schedule.rs: a Vec of           *)
(* Option<Box<T>> slots behind one Mutex, with push and pop called by the  *)
(* owner and steal called by thieves.  Every call is modelled as: call     *)
(* start, lock acquisition, the statements of the body one step at a time, *)
(* and return (which drops the MutexGuard).                                *)
(*                                                                         *)
(* A slot is a number: 0 is None (a tombstone), t > 0 is Some(Box t).      *)
(* The active end of the Vec is its last index.                            *)
(***************************************************************************)
EXTENDS Integers, Sequences, FiniteSets

\* Bounds of the model.
NThieves == 2      \* thief contexts
MaxOps == 5        \* calls started in one execution
MaxCapacity == 1   \* largest capacity handed to new

\* the capacity the tests hand to new
TestCapacity == 10

Owner == 0
Thieves == 1..NThieves
Ctx == 0..NThieves
Free == -1

VARIABLES
    capacity,  \* the capacity handed to new
    buffer,    \* the Vec behind the Mutex
    lock,      \* Free, or the context holding the MutexGuard
    pc,        \* position of each context in its call
    op,        \* the call each context is in: "none", "push", "pop", "steal"
    arg,       \* the task handed to push (0 otherwise)
    idx,       \* pop: iterations of the while loop completed so far;
               \* steal: number of slots iter_mut().rev() has yielded so far
    res,       \* the value the call is about to return
    pre,       \* the buffer as it was when the context acquired the lock
    nextTask,  \* identity of the next Box the owner creates
    started,   \* number of calls started
    log,       \* history: one entry per completed body, in lock order
    stack,     \* history: a plain LIFO stack of the undelivered tasks
    lin        \* history: the sequential orders still consistent with the calls

vars == <<capacity, buffer, lock, pc, op, arg, idx, res, pre, nextTask, started, log, stack, lin>>

(***************************************************************************)
(* Results                                                                 *)
(***************************************************************************)
R(tag, val) == [tag |-> tag, val |-> val]
NoRes == R("none", 0)
IdleRes == R("idle", 0)
PendingRes == R("pending", 0)
Unit == R("Unit", 0)              \* push returns ()
ErrEmpty == R("Empty", 0)         \* Err(Status::Empty)
ErrAbort == R("Abort", 0)         \* Err(Status::Abort)
Ok(slot) == R("Ok", slot)         \* Ok(slot), slot an Option<Box<T>>
StealNone == R("None", 0)         \* steal's None
StealTaken(slot) == IF slot = 0 THEN StealNone ELSE R("Some", slot)

(***************************************************************************)
(* Statements of the bodies                                                *)
(***************************************************************************)
\* Mutant: the is_some test is missing.
IsSome_Always(slot) == TRUE

\* Option::is_some
IsSome(slot) == slot # 0

\* Vec::is_empty
IsEmpty(buf) == Len(buf) = 0

\* Mutant: the slot is inserted at the other end, Vec::insert(0, Some(task)).
VecPush_Front(buf, task) == <<task>> \o buf

\* Vec::push(Some(task))
VecPush(buf, task) == Append(buf, task)

\* Mutant: after the removal the tombstones left at the active end are removed too.
RECURSIVE StripTombstones(_)
StripTombstones(buf) ==
    IF Len(buf) > 0 /\ buf[Len(buf)] = 0
    THEN StripTombstones(SubSeq(buf, 1, Len(buf) - 1))
    ELSE buf
VecPopRest_Compact(buf) == StripTombstones(SubSeq(buf, 1, Len(buf) - 1))

\* Mutant: the last slot is read but not removed, Vec::last.
VecPopRest_Keep(buf) == buf

\* Vec::pop: the removed last slot and the shortened Vec
VecPopSlot(buf) == buf[Len(buf)]
VecPopRest(buf) == SubSeq(buf, 1, Len(buf) - 1)

\* Mutant: pop has no early return for the empty Vec.
PopIsEmpty_Never(buf) == FALSE

\* the guard of pop's early return
PopIsEmpty(buf) == IsEmpty(buf)

\* the guard of steal's early return
StealIsEmpty(buf) == IsEmpty(buf)

\* Mutant: the iterator is not reversed, iter_mut().
RevIndex_Forward(buf, n) == n + 1

\* iter_mut().rev(): index of the slot yielded after n slots were yielded
RevIndex(buf, n) == Len(buf) - n

\* Mutant: the slot is cloned, not taken.
TakeSlot_Keep(buf, i) == buf

\* Mutant: the slot is removed from the Vec, Vec::remove(i).
TakeSlot_Remove(buf, i) == SubSeq(buf, 1, i - 1) \o SubSeq(buf, i + 1, Len(buf))

\* Option::take: the slot is left None
TakeSlot(buf, i) == [buf EXCEPT ![i] = 0]

(***************************************************************************)
(* The three operations run by one caller alone, start to end              *)
(***************************************************************************)
SeqPush(buf, task) == [buf |-> Append(buf, task), res |-> Unit]

RECURSIVE PopScan(_)
PopScan(buf) ==
    IF Len(buf) = 0 THEN [buf |-> buf, res |-> ErrAbort]
    ELSE IF buf[Len(buf)] # 0
         THEN [buf |-> SubSeq(buf, 1, Len(buf) - 1), res |-> Ok(buf[Len(buf)])]
         ELSE PopScan(SubSeq(buf, 1, Len(buf) - 1))

SeqPop(buf) ==
    IF Len(buf) = 0 THEN [buf |-> buf, res |-> ErrEmpty] ELSE PopScan(buf)

RECURSIVE StealScan(_, _)
StealScan(buf, i) ==
    IF i = 0 THEN [buf |-> buf, res |-> StealNone]
    ELSE IF buf[i] # 0
         THEN [buf |-> [buf EXCEPT ![i] = 0], res |-> R("Some", buf[i])]
         ELSE StealScan(buf, i - 1)

SeqSteal(buf) ==
    IF Len(buf) = 0 THEN [buf |-> buf, res |-> StealNone] ELSE StealScan(buf, Len(buf))

SeqApply(buf, o, a) ==
    IF o = "push" THEN SeqPush(buf, a)
    ELSE IF o = "pop" THEN SeqPop(buf)
    ELSE SeqSteal(buf)

(***************************************************************************)
(* History: sequential orders consistent with the calls seen so far.       *)
(* A configuration is a buffer and, per context, whether its call is not   *)
(* yet placed in the order ("pending") or the result the order gives it.   *)
(***************************************************************************)
LinPending(cfg) == {c \in Ctx : cfg.lr[c] = PendingRes}

LinOne(cfg, c, o, a) ==
    LET r == SeqApply(cfg.abs, o[c], a[c])
    IN [abs |-> r.buf, lr |-> [cfg.lr EXCEPT ![c] = r.res]]

RECURSIVE LinClose(_, _, _)
LinClose(S, o, a) ==
    LET T == S \cup UNION {{LinOne(cfg, c, o, a) : c \in LinPending(cfg)} : cfg \in S}
    IN IF T = S THEN S ELSE LinClose(T, o, a)

LinCall(S, c, o, a) == LinClose({[cfg EXCEPT !.lr[c] = PendingRes] : cfg \in S}, o, a)

LinReturn(S, c, r) ==
    {[cfg EXCEPT !.lr[c] = IdleRes] : cfg \in {x \in S : x.lr[c] = r}}

\* History: the stack without task t
Without(s, t) == LET Keep(x) == x # t IN SelectSeq(s, Keep)
Top(s) == IF Len(s) = 0 THEN 0 ELSE s[Len(s)]

(***************************************************************************)
(* WorkStealingDeque::new(capacity): Buffer::with_capacity(capacity)       *)
(***************************************************************************)
New(cap) ==
    /\ capacity = cap
    /\ buffer = <<>>
    /\ lock = Free
    /\ pc = [c \in Ctx |-> "idle"]
    /\ op = [c \in Ctx |-> "none"]
    /\ arg = [c \in Ctx |-> 0]
    /\ idx = [c \in Ctx |-> 0]
    /\ res = [c \in Ctx |-> NoRes]
    /\ pre = [c \in Ctx |-> <<>>]
    /\ nextTask = 1
    /\ started = 0
    /\ log = <<>>
    /\ stack = <<>>
    /\ lin = {[abs |-> <<>>, lr |-> [c \in Ctx |-> IdleRes]]}

\* the container of the tests
Init == New(TestCapacity)

\* a container of any small capacity
InitCap == \E cap \in 0..MaxCapacity : New(cap)

(***************************************************************************)
(* Calls                                                                   *)
(***************************************************************************)
Call(c, o, a) ==
    /\ pc[c] = "idle"
    /\ started < MaxOps
    /\ started' = started + 1
    /\ pc' = [pc EXCEPT ![c] = "lock"]
    /\ op' = [op EXCEPT ![c] = o]
    /\ arg' = [arg EXCEPT ![c] = a]
    /\ lin' = LinCall(lin, c, op', arg')
    /\ UNCHANGED <<capacity, buffer, lock, idx, res, pre, log, stack>>

CallPush ==
    /\ Call(Owner, "push", nextTask)
    /\ nextTask' = nextTask + 1

CallPop ==
    /\ Call(Owner, "pop", 0)
    /\ UNCHANGED nextTask

CallSteal(c) ==
    /\ c \in Thieves
    /\ Call(c, "steal", 0)
    /\ UNCHANGED nextTask

\* self.buffer.lock().unwrap()
LockFree(l) == l = Free

Acquire(c) ==
    /\ pc[c] = "lock"
    /\ LockFree(lock)
    /\ lock' = c
    /\ pc' = [pc EXCEPT ![c] = IF op[c] = "push" THEN "push_body"
                                ELSE IF op[c] = "pop" THEN "pop_check"
                                ELSE "steal_check"]
    /\ pre' = [pre EXCEPT ![c] = buffer]
    /\ UNCHANGED <<capacity, buffer, op, arg, idx, res, nextTask, started, log, stack, lin>>

\* The body of context c ends with result r and leaves the buffer b.
Finish(c, r, b) ==
    /\ buffer' = b
    /\ res' = [res EXCEPT ![c] = r]
    /\ pc' = [pc EXCEPT ![c] = "ret"]
    /\ idx' = [idx EXCEPT ![c] = 0]
    /\ log' = Append(log, [op |-> op[c], c |-> c, arg |-> arg[c], tag |-> r.tag,
                           val |-> r.val, pre |-> pre[c], post |-> b,
                           top |-> Top(stack)])
    /\ stack' = IF op[c] = "push" THEN Append(stack, arg[c])
                ELSE IF r.tag \in {"Ok", "Some"} THEN Without(stack, r.val)
                ELSE stack
    /\ UNCHANGED <<capacity, lock, op, arg, pre, nextTask, started, lin>>

\* The body of context c goes on at position p with the buffer b.
Continue(c, p, b, i) ==
    /\ buffer' = b
    /\ pc' = [pc EXCEPT ![c] = p]
    /\ idx' = [idx EXCEPT ![c] = i]
    /\ UNCHANGED <<capacity, lock, op, arg, res, pre, nextTask, started, log, stack, lin>>

(***************************************************************************)
(* push                                                                    *)
(***************************************************************************)
PushBody(c) ==
    /\ pc[c] = "push_body"
    /\ Finish(c, Unit, VecPush(buffer, arg[c]))

(***************************************************************************)
(* pop                                                                     *)
(***************************************************************************)
PopEmpty(c) ==
    /\ pc[c] = "pop_check"
    /\ PopIsEmpty(buffer)
    /\ Finish(c, ErrEmpty, buffer)

PopBegin(c) ==
    /\ pc[c] = "pop_check"
    /\ ~PopIsEmpty(buffer)
    /\ Continue(c, "pop_loop", buffer, 0)

\* while let Some(slot) = buffer.pop(), slot is Some: return Ok(slot)
PopFound(c) ==
    /\ pc[c] = "pop_loop"
    /\ ~IsEmpty(buffer)
    /\ IsSome(VecPopSlot(buffer))
    /\ Finish(c, Ok(VecPopSlot(buffer)), VecPopRest(buffer))

\* while let Some(slot) = buffer.pop(), slot is None: next iteration
PopDiscard(c) ==
    /\ pc[c] = "pop_loop"
    /\ ~IsEmpty(buffer)
    /\ ~IsSome(VecPopSlot(buffer))
    /\ Continue(c, "pop_loop", VecPopRest(buffer), idx[c] + 1)

\* buffer.pop() is None: the loop ends, Err(Status::Abort)
PopExhausted(c) ==
    /\ pc[c] = "pop_loop"
    /\ IsEmpty(buffer)
    /\ Finish(c, ErrAbort, buffer)

(***************************************************************************)
(* steal                                                                   *)
(***************************************************************************)
StealEmpty(c) ==
    /\ pc[c] = "steal_check"
    /\ StealIsEmpty(buffer)
    /\ Finish(c, StealNone, buffer)

StealBegin(c) ==
    /\ pc[c] = "steal_check"
    /\ ~StealIsEmpty(buffer)
    /\ Continue(c, "steal_scan", buffer, 0)

\* the slot is Some: return slot.take()
StealFound(c) ==
    /\ pc[c] = "steal_scan"
    /\ idx[c] < Len(buffer)
    /\ IsSome(buffer[RevIndex(buffer, idx[c])])
    /\ Finish(c, StealTaken(buffer[RevIndex(buffer, idx[c])]),
              TakeSlot(buffer, RevIndex(buffer, idx[c])))

\* the slot is None: next slot
StealSkip(c) ==
    /\ pc[c] = "steal_scan"
    /\ idx[c] < Len(buffer)
    /\ ~IsSome(buffer[RevIndex(buffer, idx[c])])
    /\ Continue(c, "steal_scan", buffer, idx[c] + 1)

\* the iterator is exhausted: None
StealExhausted(c) ==
    /\ pc[c] = "steal_scan"
    /\ idx[c] >= Len(buffer)
    /\ Finish(c, StealNone, buffer)

(***************************************************************************)
(* Return: the MutexGuard is dropped and the caller gets the result        *)
(***************************************************************************)
\* Mutant: the guard is leaked (mem::forget), the lock stays held.
Released_Never(l, c) == l

\* drop of the MutexGuard held by c
Released(l, c) == IF l = c THEN Free ELSE l

Return(c) ==
    /\ pc[c] = "ret"
    /\ lock' = Released(lock, c)
    /\ pc' = [pc EXCEPT ![c] = "idle"]
    /\ op' = [op EXCEPT ![c] = "none"]
    /\ arg' = [arg EXCEPT ![c] = 0]
    /\ res' = [res EXCEPT ![c] = NoRes]
    /\ pre' = [pre EXCEPT ![c] = <<>>]
    /\ lin' = LinReturn(lin, c, res[c])
    /\ UNCHANGED <<capacity, buffer, idx, nextTask, started, log, stack>>

Next ==
    \/ CallPush
    \/ CallPop
    \/ \E c \in Thieves : CallSteal(c)
    \/ \E c \in Ctx : Acquire(c)
    \/ PushBody(Owner)
    \/ PopEmpty(Owner)
    \/ PopBegin(Owner)
    \/ PopFound(Owner)
    \/ PopDiscard(Owner)
    \/ PopExhausted(Owner)
    \/ \E c \in Thieves : StealEmpty(c)
    \/ \E c \in Thieves : StealBegin(c)
    \/ \E c \in Thieves : StealFound(c)
    \/ \E c \in Thieves : StealSkip(c)
    \/ \E c \in Thieves : StealExhausted(c)
    \/ \E c \in Ctx : Return(c)

Spec == Init /\ [][Next]_vars

\* the steps of context c once its call has started
Body(c) ==
    \/ Acquire(c)
    \/ PushBody(c)
    \/ PopEmpty(c) \/ PopBegin(c) \/ PopFound(c) \/ PopDiscard(c) \/ PopExhausted(c)
    \/ StealEmpty(c) \/ StealBegin(c) \/ StealFound(c) \/ StealSkip(c) \/ StealExhausted(c)
    \/ Return(c)

\* every thread that is inside a call keeps being scheduled
FairSpec == Spec /\ \A c \in Ctx : WF_vars(Body(c))

\* the same calls on a container of any small capacity
SpecCap == InitCap /\ [][Next]_vars

(***************************************************************************)
(* Vocabulary of the properties                                            *)
(***************************************************************************)
LogIdx == DOMAIN log
IsPush(i) == log[i].op = "push"
IsPop(i) == log[i].op = "pop"
IsSteal(i) == log[i].op = "steal"
IsTake(i) == log[i].tag \in {"Ok", "Some"}
IsOwnerCall(i) == log[i].op \in {"push", "pop"}
Pushed == {log[i].arg : i \in {j \in LogIdx : IsPush(j)}}
LiveIdx(buf) == {i \in DOMAIN buf : buf[i] # 0}
AllTombstones(buf) == Len(buf) > 0 /\ LiveIdx(buf) = {}
NearestLive(buf) ==
    IF LiveIdx(buf) = {} THEN 0
    ELSE buf[CHOOSE i \in LiveIdx(buf) : \A j \in LiveIdx(buf) : j <= i]
StealNeverCalled ==
    /\ \A c \in Thieves : op[c] = "none"
    /\ \A i \in LogIdx : ~IsSteal(i)

\* C1: every pushed task is in exactly one live slot or was returned by
\* exactly one successful pop or steal, never both, never twice, never lost;
\* a task not pushed yet is nowhere.
C1_ExactlyOnce ==
    \A t \in 1..MaxOps :
        LET held == Cardinality({i \in DOMAIN buffer : buffer[i] = t})
            given == Cardinality({i \in LogIdx : IsTake(i) /\ log[i].val = t})
        IN /\ given <= 1
           /\ held + given = IF t \in Pushed THEN 1 ELSE 0

\* C1 witness: one task was returned by pop, another by steal, a third is
\* still held in a live slot.
C1_Witness ==
    /\ \E i \in LogIdx : log[i].tag = "Ok"
    /\ \E i \in LogIdx : log[i].tag = "Some"
    /\ LiveIdx(buffer) # {}
    /\ Cardinality(Pushed) = 3

StealEntries(c) == {i \in LogIdx : IsSteal(i) /\ log[i].c = c}
OneStealEach ==
    /\ op[Owner] = "none"
    /\ \A i \in LogIdx : ~IsPop(i)
    /\ \A c \in Thieves : pc[c] = "idle" /\ Cardinality(StealEntries(c)) = 1
    /\ \A i, j \in LogIdx : IsPush(i) /\ IsSteal(j) => i < j
    /\ NThieves >= Cardinality(Pushed)

\* C2: N tasks pushed, no pop, then each of the M >= N thieves steals once:
\* exactly N steals return a task, the tasks returned are pairwise distinct
\* and are the pushed tasks, the other M-N steals return None.
C2_StealAll ==
    OneStealEach =>
        LET won == {i \in LogIdx : IsSteal(i) /\ log[i].tag = "Some"}
        IN /\ Cardinality(won) = Cardinality(Pushed)
           /\ {log[i].val : i \in won} = Pushed
           /\ \A i \in LogIdx : IsSteal(i) /\ i \notin won => log[i].tag = "None"

\* C2 witness: one task, two thieves; one steal got it and one got None.
C2_Witness ==
    /\ OneStealEach
    /\ Cardinality(Pushed) = 1
    /\ \E i \in LogIdx : log[i].tag = "Some"
    /\ \E i \in LogIdx : log[i].tag = "None"

\* C3: linearizability: at every moment some single sequential order of the
\* calls, consistent with the order of call starts and returns, gives every
\* returned call the result it returned.
C3_Linearizable == lin # {}

\* C3 witness: a steal returns a task while the owner's pop and another
\* steal are in progress, and more than one order is still possible.
C3_Witness ==
    /\ \E c \in Thieves : pc[c] = "ret" /\ res[c].tag = "Some"
    /\ op[Owner] = "pop" /\ pc[Owner] = "lock"
    /\ \E c \in Thieves : pc[c] = "lock"
    /\ Cardinality(lin) > 1

\* log[i..i+k-1] are pushes and log[i+k..i+2k-1] are pops
PushesThenPops(i, k) ==
    /\ i + 2 * k - 1 <= Len(log)
    /\ \A j \in 0..(k - 1) : IsPush(i + j) /\ IsPop(i + k + j)

\* C4: k pushes followed by k pops with no steal in between: the j-th pop
\* returns the (k-j+1)-th of the pushed tasks.
C4_PushPopReverse ==
    \A i \in LogIdx : \A k \in 1..MaxOps :
        PushesThenPops(i, k) =>
            \A j \in 1..k : log[i + k + j - 1].tag = "Ok"
                            /\ log[i + k + j - 1].val = log[i + k - j].arg

\* C4 witness: a push, then two pushes followed by two pops.
C4_Witness ==
    \E i \in LogIdx : i > 1 /\ PushesThenPops(i, 2) /\ Len(log[i].pre) = 1

\* the first k calls are pushes, the next m are steals
PushesThenSteals(k, m) ==
    /\ k + m <= Len(log)
    /\ \A j \in 1..k : IsPush(j)
    /\ \A j \in 1..m : IsSteal(k + j)

\* C5: k pushes into a new container followed by up to k+1 steals: the m-th
\* steal returns the (k-m+1)-th pushed task, the (k+1)-th returns None, and
\* the length is k after every one of them.
C5_StealOrder ==
    \A k \in 0..MaxOps : \A m \in 1..(k + 1) :
        PushesThenSteals(k, m) =>
            /\ Len(log[k + m].post) = k
            /\ IF m <= k
               THEN log[k + m].tag = "Some" /\ log[k + m].val = log[k - m + 1].arg
               ELSE log[k + m].tag = "None"

\* C5 witness: push, push, steal, steal, steal.
C5_Witness == PushesThenSteals(2, 3)

\* C6: the result of a pop is decided by the buffer when the pop gets the
\* lock: Empty iff its length is 0, Abort iff it is non-empty and all
\* tombstones, else the task of the live slot nearest the active end; and
\* an Abort has removed at least one tombstone.
C6_PopResult ==
    \A i \in LogIdx : IsPop(i) =>
        LET e == log[i] IN
        /\ e.tag \in {"Empty", "Abort", "Ok"}
        /\ (e.tag = "Empty") <=> (Len(e.pre) = 0)
        /\ (e.tag = "Abort") <=> AllTombstones(e.pre)
        /\ e.tag = "Ok" => e.val = NearestLive(e.pre) /\ e.val # 0
        /\ e.tag = "Abort" => Len(e.post) < Len(e.pre)

\* C6 witness: one pop returned a task and one returned Abort.
C6_Witness ==
    /\ \E i \in LogIdx : IsPop(i) /\ log[i].tag = "Ok"
    /\ \E i \in LogIdx : IsPop(i) /\ log[i].tag = "Abort"

\* the last call of the owner before entry i (0: none)
PrevOwnerCall(i) ==
    LET S == {j \in LogIdx : j < i /\ IsOwnerCall(j)}
    IN IF S = {} THEN 0 ELSE CHOOSE j \in S : \A h \in S : h <= j

\* the last entry before i that left the buffer with length 0 (0: creation)
PrevEmpty(i) ==
    LET S == {j \in LogIdx : j < i /\ Len(log[j].post) = 0}
    IN IF S = {} THEN 0 ELSE CHOOSE j \in S : \A h \in S : h <= j

StoleBetween(j, i) ==
    \E k \in LogIdx : j < k /\ k < i /\ IsSteal(k) /\ log[k].tag = "Some"

\* C7 as stated: a pop returns Abort only if a steal succeeded after the
\* owner's previous call and before this pop.
C7_AbortAfterFreshSteal ==
    \A i \in LogIdx : IsPop(i) /\ log[i].tag = "Abort" => StoleBetween(PrevOwnerCall(i), i)

\* C7 amended: a pop returns Abort only if a steal succeeded before this pop
\* and after the buffer last had length 0 (creation included); the steal may
\* precede the owner's previous call.
C7_AbortAfterSteal ==
    \A i \in LogIdx : IsPop(i) /\ log[i].tag = "Abort" => StoleBetween(PrevEmpty(i), i)

\* C7 witness: an Abort whose tombstone is older than the owner's previous
\* call.
C7_Witness ==
    \E i \in LogIdx : /\ IsPop(i) /\ log[i].tag = "Abort"
                      /\ ~StoleBetween(PrevOwnerCall(i), i)
                      /\ StoleBetween(PrevEmpty(i), i)

\* every task pushed before entry i was stolen before entry i, and there was
\* at least one
AllStolenBefore(i) ==
    LET P == {j \in LogIdx : j < i /\ IsPush(j)}
    IN /\ P # {}
       /\ \A j \in LogIdx : j < i => ~IsPop(j)
       /\ \A j \in P : \E k \in LogIdx :
              j < k /\ k < i /\ IsSteal(k) /\ log[k].tag = "Some" /\ log[k].val = log[j].arg

\* C8: a pop that finds a non-empty buffer of tombstones only (as after
\* push(1); steal()) returns Abort and leaves length 0; the owner's next pop,
\* with no push in between, returns Empty, whatever steals interleave.
C8_AbortThenEmpty ==
    \A i \in LogIdx : IsPop(i) =>
        /\ AllStolenBefore(i) => AllTombstones(log[i].pre)
        /\ AllTombstones(log[i].pre) => log[i].tag = "Abort" /\ Len(log[i].post) = 0
        /\ (PrevOwnerCall(i) # 0 /\ log[PrevOwnerCall(i)].tag = "Abort") => log[i].tag = "Empty"

\* C8 witness: pop returns Abort, a steal runs, the next pop returns Empty.
C8_Witness ==
    \E i \in LogIdx : /\ IsPop(i) /\ log[i].tag = "Empty"
                      /\ PrevOwnerCall(i) # 0
                      /\ log[PrevOwnerCall(i)].tag = "Abort"
                      /\ AllStolenBefore(PrevOwnerCall(i))
                      /\ \E k \in LogIdx : PrevOwnerCall(i) < k /\ k < i /\ IsSteal(k)

PushesBefore(i) == Cardinality({j \in LogIdx : j < i /\ IsPush(j)})
PopsOkBefore(i) == Cardinality({j \in LogIdx : j < i /\ IsPop(j) /\ log[j].tag = "Ok"})

\* C9: while steal has never been called the buffer holds no tombstone, no
\* pop returned Abort, and a pop returned a task iff more pushes than
\* successful pops preceded it, and Empty otherwise.
C9_NoStealNoAbort ==
    StealNeverCalled =>
        /\ \A i \in DOMAIN buffer : buffer[i] # 0
        /\ \A i \in LogIdx : IsPop(i) =>
              /\ log[i].tag # "Abort"
              /\ (log[i].tag = "Ok") <=> (PushesBefore(i) > PopsOkBefore(i))
              /\ log[i].tag # "Ok" => log[i].tag = "Empty"

\* C9 witness: push, pop, push, pop, pop without any steal; the last pop
\* returned Empty.
C9_Witness ==
    /\ StealNeverCalled
    /\ Len(log) = 5
    /\ IsPush(1) /\ IsPop(2) /\ IsPush(3) /\ IsPop(4) /\ IsPop(5)
    /\ log[5].tag = "Empty"

\* C10: whenever a live slot exists, a pop and a steal run alone on the
\* buffer would both return the most recently pushed undelivered task, and
\* every task that was delivered was the top of the plain LIFO stack of the
\* undelivered tasks.
C10_SameEndLIFO ==
    /\ LiveIdx(buffer) # {} =>
          /\ SeqPop(buffer).res = Ok(Top(stack))
          /\ SeqSteal(buffer).res = R("Some", Top(stack))
    /\ \A i \in LogIdx : IsTake(i) => log[i].val = log[i].top

\* C10 witness: a pop and a steal each delivered a task and the live slot
\* left lies under a tombstone.
C10_Witness ==
    /\ \E i \in LogIdx : IsPop(i) /\ IsTake(i)
    /\ \E i \in LogIdx : IsSteal(i) /\ IsTake(i)
    /\ LiveIdx(buffer) # {}
    /\ buffer[Len(buffer)] = 0

\* index of the live slot nearest the active end (0: none)
TopLiveIdx(buf) ==
    IF LiveIdx(buf) = {} THEN 0
    ELSE CHOOSE i \in LiveIdx(buf) : \A j \in LiveIdx(buf) : j <= i
Tombstones(buf) == Cardinality({i \in DOMAIN buf : buf[i] = 0})

C12_PushAppends ==
    /\ Len(log) = 0 => Len(buffer) = 0
    /\ \A i \in LogIdx : IsPush(i) =>
          /\ log[i].tag = "Unit"
          /\ log[i].arg # 0
          /\ log[i].post = log[i].pre \o <<log[i].arg>>
          /\ (i + 1 \in LogIdx /\ ~IsPush(i + 1)) =>
                 IsTake(i + 1) /\ log[i + 1].val = log[i].arg

\* C12 witness: a push found the buffer longer than the capacity handed to
\* new, and the next call, a steal, returned the task pushed.
C12_Witness ==
    \E i \in LogIdx : /\ IsPush(i)
                      /\ capacity > 0
                      /\ Len(log[i].pre) > capacity
                      /\ i + 1 \in LogIdx
                      /\ IsSteal(i + 1)
                      /\ log[i + 1].val = log[i].arg

\* C13: steal tells why it delivered nothing, as its doc comment says: Empty
\* on an empty deque, Abort on a deque that is not empty but whose topmost
\* element went to another caller, and otherwise the element stolen from the
\* top.
C13_StealReportsWhy ==
    \A i \in LogIdx : IsSteal(i) =>
        /\ Len(log[i].pre) = 0 => log[i].tag = "Empty"
        /\ AllTombstones(log[i].pre) => log[i].tag = "Abort"
        /\ LiveIdx(log[i].pre) # {} =>
               log[i].tag = "Some" /\ log[i].val = NearestLive(log[i].pre)

\* C14: a steal that returns a task turns the live slot nearest the active
\* end into a tombstone in place: same length, every other slot as before,
\* one more tombstone, and the task returned is the one that slot held.
C14_StealInPlace ==
    \A i \in LogIdx : IsSteal(i) /\ log[i].tag = "Some" =>
        LET e == log[i]
            k == TopLiveIdx(e.pre)
        IN /\ k # 0
           /\ e.val = e.pre[k]
           /\ Len(e.post) = Len(e.pre)
           /\ e.post[k] = 0
           /\ \A j \in DOMAIN e.pre : j # k => e.post[j] = e.pre[j]
           /\ Tombstones(e.post) = Tombstones(e.pre) + 1

\* C14 witness: a steal took the middle slot of three, under a tombstone
\* and above a live slot.
C14_Witness ==
    \E i \in LogIdx : /\ IsSteal(i) /\ log[i].tag = "Some"
                      /\ Len(log[i].pre) = 3
                      /\ TopLiveIdx(log[i].pre) = 2
                      /\ log[i].post[1] # 0

\* C15: in every step the length grows only by 1 and only in a push, never
\* changes in a steal, and shrinks only in a pop; a pop that found a
\* non-empty buffer and returns a task has shortened it by the tombstones
\* above the nearest live slot plus one, and one that returns Abort has
\* shortened it to 0.
C15_LengthSteps ==
    [][/\ Len(buffer') > Len(buffer) =>
              lock \in Ctx /\ op[lock] = "push" /\ Len(buffer') = Len(buffer) + 1
       /\ Len(buffer') < Len(buffer) => lock \in Ctx /\ op[lock] = "pop"
       /\ \A e \in {log'[j] : j \in (DOMAIN log') \ (DOMAIN log)} :
              /\ e.post = buffer'
              /\ e.op = "push" => Len(e.post) = Len(e.pre) + 1
              /\ e.op = "steal" => Len(e.post) = Len(e.pre) /\ Len(buffer) = Len(e.pre)
              /\ e.op = "pop" => Len(e.post) <= Len(e.pre)
              /\ e.op = "pop" /\ e.tag = "Ok" =>
                     Len(e.pre) - Len(e.post) = (Len(e.pre) - TopLiveIdx(e.pre)) + 1
              /\ e.op = "pop" /\ e.tag = "Abort" => Len(e.pre) > 0 /\ Len(e.post) = 0
      ]_vars

\* C15 witness: a pop returned a task after removing two slots, a tombstone
\* and the live slot under it.
C15_Witness ==
    \E i \in LogIdx : /\ IsPop(i) /\ log[i].tag = "Ok"
                      /\ Len(log[i].pre) - Len(log[i].post) = 2

InBody(c) == pc[c] \notin {"idle", "lock"}

\* C16: the lock is held exactly by the one context that is inside a body:
\* it is free whenever no context is inside a call, no two contexts are
\* inside a body together, pop's loop has run at most as many iterations as
\* the buffer was long when the pop got the lock, and under weak fairness
\* every call that has started returns.
C16_LockScoped ==
    /\ [](/\ (\A c \in Ctx : pc[c] = "idle") => lock = Free
          /\ \A c \in Ctx : InBody(c) <=> lock = c
          /\ Cardinality({c \in Ctx : InBody(c)}) <= 1
          /\ \A c \in Ctx : pc[c] = "pop_loop" => idx[c] <= Len(pre[c])
          /\ \A c \in Ctx : pc[c] = "pop_loop" /\ IsEmpty(buffer) => idx[c] = Len(pre[c]))
    /\ \A c \in Ctx : (pc[c] # "idle") ~> (pc[c] = "idle")

\* C16 witness: the owner's pop is in its loop after discarding a
\* tombstone while a thief waits for the lock.
C16_Witness ==
    /\ pc[Owner] = "pop_loop"
    /\ idx[Owner] = 1
    /\ lock = Owner
    /\ \E c \in Thieves : pc[c] = "lock"

\* C17: a pop that returns a task leaves exactly the slots below the live
\* slot it returns, tombstones included; so after push, steal, push the two
\* pops return the second task and then Abort.
C17_PopKeepsLower ==
    /\ \A i \in LogIdx : IsPop(i) /\ log[i].tag = "Ok" =>
          LET k == TopLiveIdx(log[i].pre)
          IN /\ k # 0
             /\ log[i].val = log[i].pre[k]
             /\ log[i].post = SubSeq(log[i].pre, 1, k - 1)
    /\ (Len(log) >= 4 /\ IsPush(1) /\ IsSteal(2) /\ IsPush(3) /\ IsPop(4)) =>
          /\ log[2].tag = "Some" /\ log[2].val = log[1].arg
          /\ log[4].tag = "Ok" /\ log[4].val = log[3].arg
          /\ log[4].post = <<0>>
          /\ (Len(log) >= 5 /\ IsPop(5)) => log[5].tag = "Abort"

\* C17 witness: push, steal, push, pop, pop has run; the first pop left the
\* tombstone and the second returned Abort.
C17_Witness ==
    /\ Len(log) = 5
    /\ IsPush(1) /\ IsSteal(2) /\ IsPush(3) /\ IsPop(4) /\ IsPop(5)
    /\ Tombstones(log[4].post) = 1
    /\ log[5].tag = "Abort"

\* C18: a pop never returns Ok(None): the payload of every Ok is a task
\* that was pushed before and delivered to nobody before.
C18_OkIsSome ==
    /\ \A c \in Ctx : res[c].tag = "Ok" => res[c].val # 0
    /\ \A i \in LogIdx : IsPop(i) /\ log[i].tag = "Ok" =>
          /\ log[i].val # 0
          /\ \E j \in LogIdx : j < i /\ IsPush(j) /\ log[j].arg = log[i].val
          /\ \A j \in LogIdx : j < i /\ IsTake(j) => log[j].val # log[i].val

\* C18 witness: a pop returned a task after discarding a tombstone above it.
C18_Witness ==
    \E i \in LogIdx : /\ IsPop(i) /\ log[i].tag = "Ok"
                      /\ log[i].pre[Len(log[i].pre)] = 0

\* the first 2k calls are push, steal, push, steal, ...
PushStealPairs(k) ==
    /\ Len(log) >= 2 * k
    /\ \A j \in 1..k : IsPush(2 * j - 1) /\ IsSteal(2 * j)

\* C19: the length is the live slots plus the tombstones, the live slots are
\* the pushes minus the successful takes, the tombstones are at most the
\* successful steals, and k rounds of push; steal with no pop leave length k
\* with no live slot.
C19_TombstonesStay ==
    /\ Len(buffer) = Cardinality(LiveIdx(buffer)) + Tombstones(buffer)
    /\ Cardinality(LiveIdx(buffer)) =
          Cardinality({i \in LogIdx : IsPush(i)}) - Cardinality({i \in LogIdx : IsTake(i)})
    /\ Tombstones(buffer) <= Cardinality({i \in LogIdx : IsSteal(i) /\ IsTake(i)})
    /\ \A k \in 1..MaxOps : PushStealPairs(k) =>
          /\ log[2 * k].tag = "Some"
          /\ Len(log[2 * k].post) = k
          /\ LiveIdx(log[2 * k].post) = {}

\* C19 witness: push, steal, push, steal has left two tombstones and no
\* live slot.
C19_Witness ==
    /\ PushStealPairs(2)
    /\ Len(log) = 4
    /\ buffer = <<0, 0>>

====
